---- MODULE Spec2Model ----
(***************************************************************************)
(* A model of flood's workload engine (flood_rust/src/workload.rs).        *)
(*                                                                         *)
(* A Workload owns a Context (session + TryLock<SessionStats>), a          *)
(* TryLock<WorkloadState> and a list of pre-built requests.  The heap is   *)
(* explicit: a workload refers to its WorkloadState and to its             *)
(* SessionStats by cell number, so that sharing between a workload and    *)
(* its clone is something the model can express.                           *)
(*                                                                         *)
(* Spec        one driver per workload, cooperatively scheduled: a run()   *)
(*             future suspends only at the dispatch await of call(), so    *)
(*             every action is one synchronous segment between awaits.     *)
(* SpecThreads one workload shared by reference between OS threads: the    *)
(*             acquisition of the WorkloadState lock and the critical      *)
(*             section behind it are separate steps.                       *)
(***************************************************************************)
EXTENDS Integers, Sequences, FiniteSets, Bags, TLC

\* ---------------------------------------------------------------- bounds
\* The clock runs over 0..MaxTime.
MaxTime == 1
\* Handler invocations (run, reset, take_stats) per behaviour; it also
\* bounds the cycle numbers.
MaxOps == 3
\* The same, in the behaviours with a clone (SpecClone).
MaxCloneOps == 2
\* The same, in the behaviours with threads (SpecThreads).
MaxThreadOps == 2
\* run() futures in flight at once on one workload (the concurrency limit).
Concurrency == 2
\* The longest request list a workload is built with.
MaxReq == 2
\* Calls of operation_completed on one FnStats between two zeroings
\* (SpecFnStats).
MaxCalls == 2
\* The largest num_req and the longest rate list of a command (SpecRate).
MaxNumReq == 11
MaxRates == 2
MaxText == 3

\* u64::MAX, the upper clamp of operation_completed, scaled down to the
\* model's integers (durations of the model stay far below it).
U64_MAX == 15

Workloads == {1, 2}
Cells == {1, 2}
Threads == {1, 2}
Times == 0..MaxTime
\* What stateOf and statsOf hold for a workload not constructed yet.
NoCell == 0

VARIABLES
    now,        \* the last instant Instant::now() returned
    live,       \* the workloads constructed so far
    stateOf,    \* workload -> cell of its TryLock<WorkloadState>
    statsOf,    \* workload -> cell of its context's TryLock<SessionStats>
    requests,   \* workload -> its request list
    state,      \* cell -> WorkloadState
    stateLock,  \* cell -> is_locked of the TryLock<WorkloadState>
    stats,      \* cell -> SessionStats
    statsLock,  \* cell -> is_locked of the TryLock<SessionStats>
    inflight,   \* suspended run() futures, each at the dispatch await
    out,        \* what the handler that returned in the last step returned
    ghost,      \* workload -> history counters (what the driver did so far)
    budget,     \* handler invocations the behaviour may still make
    contended,  \* the locks a try_lock has found held
    dead,       \* workloads whose driver panicked
    pc,         \* SpecThreads: thread -> where it is
    fstats,     \* SpecFnStats: a FnStats on its own
    applied,    \* SpecFnStats: the durations given to it since it was zeroed
    text,       \* SpecInterval: the string given to Interval::from_str
    parsed,     \* SpecInterval: what from_str returned for it
    probe,      \* SpecInterval: what is_not_zero and is_bounded returned
    cmd,        \* SpecRate: the RpcCommand fields parse_rate reads
    rates       \* SpecRate: what parse_rate returned

vars == <<now, live, stateOf, statsOf, requests, state, stateLock, stats,
          statsLock, inflight, out, ghost, budget, contended,
          dead, pc, fstats, applied, text, parsed, probe, cmd, rates>>

\* The variables of the workload engine, and those of the specifications of
\* FnStats, Interval and parse_rate on their own.
WorkloadVars == <<now, live, stateOf, statsOf, requests, state, stateLock,
                  stats, statsLock, inflight, out, ghost, contended, dead, pc>>
PureVars == <<fstats, applied, text, parsed, probe, cmd, rates>>

\* Not called yet / nothing returned yet.
Unset == [kind |-> "unset"]

\* ------------------------------------------------------------- FnStats
\* Mutant: as_nanos() as u64 with no clamp.
ClampNone(v, lo, hi) == v

Clamp(v, lo, hi) == IF v < lo THEN lo ELSE IF v > hi THEN hi ELSE v

\* The cast `as u64` of a u128: the low 64 bits.
as_u64(v) == v % (U64_MAX + 1)

FnStatsDefault == [call_count |-> 0, call_times_ns |-> EmptyBag]

\* Mutant: a zero duration is dropped as an invalid sample, uncounted.
operation_completed_drops_zero(fs, duration) ==
    IF duration = 0
    THEN fs
    ELSE [call_count |-> fs.call_count + 1,
          call_times_ns |-> fs.call_times_ns
                                (+) SetToBag({as_u64(Clamp(duration, 1, U64_MAX))})]

\* duration is duration.as_nanos(), a u128.
operation_completed(fs, duration) ==
    [call_count |-> fs.call_count + 1,
     call_times_ns |-> fs.call_times_ns
                           (+) SetToBag({as_u64(Clamp(duration, 1, U64_MAX))})]

WorkloadStateDefault(t) == [start_time |-> t, fn_stats |-> FnStatsDefault]

\* -------------------------------------------------------- SessionStats
SessionStatsDefault == [req_count |-> 0, req_errors |-> 0]

complete_request(ss, ok) ==
    [req_count |-> ss.req_count + 1,
     req_errors |-> ss.req_errors + (IF ok THEN 0 ELSE 1)]

\* ----------------------------------------------------------- histories
GhostDefault(t) ==
    [started |-> 0,      \* run() calls made (the driver's cycle counter)
     completed |-> 0,    \* run() calls that have completed
     taken |-> 0,        \* the sum of call_count over the snapshots returned
     wasReset |-> FALSE, \* reset() has been called
     quiet |-> FALSE,    \* take_stats was called and no run() completed since
     stale |-> 0,        \* cycles begun before the last reset, counted in fn_stats
     origin |-> t,       \* the time construction, the last reset or the last
                         \* take_stats (its end_time) was given, whichever is latest
     lastOp |-> "new"]   \* the last handler segment executed on the workload

NoReturn == [kind |-> "none"]

InFlightOf(w) == {t \in inflight : t.w = w}

\* ------------------------------------------------------------------ Init
\* The workload engine makes no use of the variables of the other
\* specifications.
PureUnused ==
    /\ fstats = FnStatsDefault
    /\ applied = <<>>
    /\ text = Unset
    /\ parsed = Unset
    /\ probe = Unset
    /\ cmd = Unset
    /\ rates = Unset

\* Workload::new(context, requests), at time 0.
Constructed ==
    /\ now = 0
    /\ live = {1}
    /\ stateOf = [w \in Workloads |-> IF w = 1 THEN 1 ELSE NoCell]
    /\ statsOf = [w \in Workloads |-> IF w = 1 THEN 1 ELSE NoCell]
    /\ \E n \in 0..MaxReq :
          requests = [w \in Workloads |-> IF w = 1 THEN [i \in 1..n |-> i] ELSE <<>>]
    /\ state = [c \in Cells |-> WorkloadStateDefault(0)]
    /\ stateLock = [c \in Cells |-> FALSE]
    /\ stats = [c \in Cells |-> SessionStatsDefault]
    /\ statsLock = [c \in Cells |-> FALSE]
    /\ inflight = {}
    /\ out = NoReturn
    /\ ghost = [w \in Workloads |-> GhostDefault(0)]
    /\ contended = {}
    /\ dead = {}
    /\ pc = [th \in Threads |-> [at |-> "idle"]]
    /\ PureUnused

Init ==
    /\ Constructed
    /\ budget = MaxOps

\* --------------------------------------------------------------- frames
HeapVars == <<live, stateOf, statsOf, requests>>
LockVars == <<stateLock, statsLock>>

\* try_lock().unwrap() on a held lock: the driver of workload w panics.
Panic(w, lock) ==
    /\ contended' = contended \cup {lock}
    /\ dead' = dead \cup {w}

NoPanic == UNCHANGED <<contended, dead>>

Touch(w, op) == [ghost EXCEPT ![w].lastOp = op]

Started(g, w) == [g EXCEPT ![w].started = @ + 1]

\* ------------------------------------------------------------------ time
\* Instant::now() is monotonic: a read returns an instant t not earlier than
\* the last one returned.  run() reads it at its start and at its end, and
\* WorkloadState::default() reads it in clone; the read of call() after a
\* dispatch goes to complete_request only and leaves no trace here.  reset
\* and take_stats read no clock: the instant is the caller's argument, any
\* instant of Times.
ClockReads == now..MaxTime

\* ----------------------------------------------------------------- clone
\* Mutant: the clone refers to the original's WorkloadState (a shared handle).
CloneStateShared(src, dst, t) ==
    [cell |-> stateOf[src], value |-> state[stateOf[src]]]

\* state: TryLock::new(WorkloadState::default()): a new cell, a new value.
CloneState(src, dst, t) ==
    [cell |-> dst, value |-> WorkloadStateDefault(t)]

\* context: self.context.clone()?: the session is shared, the SessionStats
\* are the clone's own.
CloneContext(src, dst) ==
    [cell |-> dst, value |-> SessionStatsDefault]

\* requests: self.requests.clone()
CloneRequests(src) == requests[src]

Clone(src, dst, t) ==
    /\ now' = t
    /\ src \in live \ dead
    /\ dst \notin live
    /\ live' = live \cup {dst}
    /\ LET cs == CloneState(src, dst, t)
           cc == CloneContext(src, dst)
       IN /\ stateOf' = [stateOf EXCEPT ![dst] = cs.cell]
          /\ state' = [state EXCEPT ![cs.cell] = cs.value]
          /\ statsOf' = [statsOf EXCEPT ![dst] = cc.cell]
          /\ stats' = [stats EXCEPT ![cc.cell] = cc.value]
    /\ requests' = [requests EXCEPT ![dst] = CloneRequests(src)]
    /\ ghost' = [ghost EXCEPT ![dst] = GhostDefault(t)]
    /\ out' = NoReturn
    /\ UNCHANGED <<LockVars, inflight, budget, contended, dead, pc, PureVars>>

\* ------------------------------------------------------------ call / run
\* Mutant: the guard is bound to a variable and lives across the await.
CallStartRequestHoldsGuard(s) == [statsLock EXCEPT ![s] = TRUE]

\* The SessionStats lock once the statement
\*   self.context.stats.try_lock().unwrap().start_request()
\* has ended: the guard is a temporary, dropped before the dispatch await.
CallStartRequest(s) == [statsLock EXCEPT ![s] = FALSE]

\* Mutant: a failed dispatch ends the loop (rs? in place of recording it).
CallStopsOnError(idx, n, ok) == idx < n /\ ok

\* Mutant: the loop ends one request early.
CallSkipsLast(idx, n, ok) == idx + 1 < n

\* The for loop of call(): after request idx of n has completed with
\* result ok, is there a next request to dispatch?
CallContinues(idx, n, ok) == idx < n

\* call() ends in Ok(()) whatever the dispatches returned.
CallResult(last) == "Ok"

\* Mutant: run returns the number of the next cycle.
RunResultNextCycle(cycle, end_time, rs) ==
    [kind |-> "Ok", cycle |-> cycle + 1, end_time |-> end_time]

\* The match at the end of run(): both arms return Ok((cycle, end_time)).
RunResult(cycle, end_time, rs) ==
    IF rs = "Ok"
    THEN [kind |-> "Ok", cycle |-> cycle, end_time |-> end_time]
    ELSE [kind |-> "Ok", cycle |-> cycle, end_time |-> end_time]

\* What run() adds to fn_stats (the critical section of run).
RunRecord(ws, start_time, end_time) ==
    [ws EXCEPT !.fn_stats = operation_completed(@, end_time - start_time)]

RunGhost(g, w, stale) ==
    [g EXCEPT ![w].completed = @ + 1,
              ![w].quiet = FALSE,
                  ![w].stale = @ + (IF stale THEN 1 ELSE 0),
                  ![w].lastOp = "run"]

\* last: the dispatch that completed in this segment, [idx, ok] (idx 0: none).
RunReturn(w, cycle, end_time, sent, last) ==
    [kind |-> "run", w |-> w,
     ret |-> RunResult(cycle, end_time, CallResult(last)),
     arg |-> cycle]

\* The critical section of run and its return, entered with the lock held.
RunBody(g, w, cycle, start_time, end_time, sent, last, stale) ==
    /\ state' = [state EXCEPT ![stateOf[w]] = RunRecord(@, start_time, end_time)]
    /\ out' = RunReturn(w, cycle, end_time, sent, last)
    /\ ghost' = RunGhost(g, w, stale)
    /\ NoPanic

\* run() after call() has returned: lines 121-131, one synchronous segment.
RunTail(g, w, cycle, start_time, end_time, sent, last, stale) ==
    IF stateLock[stateOf[w]]
    THEN /\ Panic(w, "state")
         /\ ghost' = [g EXCEPT ![w].lastOp = "run"]
         /\ out' = NoReturn
         /\ UNCHANGED state
    ELSE RunBody(g, w, cycle, start_time, end_time, sent, last, stale)

\* run(cycle) up to its first suspension: the dispatch await of the first
\* request, or the end of run when the request list is empty.
RunStart(w, cycle, t) ==
    LET s == statsOf[w]
        reqs == requests[w]
        start_time == t
    IN /\ w \in live \ dead
       /\ budget > 0
       /\ Cardinality(InFlightOf(w)) < Concurrency
       /\ budget' = budget - 1
       /\ IF reqs = <<>>
          THEN /\ \E end_time \in start_time..MaxTime :
                     /\ RunTail(Started(ghost, w), w, cycle, start_time, end_time,
                                <<>>, [idx |-> 0, ok |-> TRUE], FALSE)
                     /\ now' = end_time
               /\ UNCHANGED <<inflight, statsLock>>
          ELSE IF statsLock[s]
          THEN /\ Panic(w, "stats")
               /\ ghost' = Started(Touch(w, "run"), w)
               /\ out' = NoReturn
               /\ now' = t
               /\ UNCHANGED <<inflight, statsLock, state>>
          ELSE /\ inflight' = inflight \cup
                     {[w |-> w, cycle |-> cycle, start_time |-> start_time,
                       idx |-> 1, stale |-> FALSE,
                       sent |-> <<reqs[1]>>]}
               /\ statsLock' = CallStartRequest(s)
               /\ ghost' = Started(Touch(w, "run"), w)
               /\ NoPanic
               /\ out' = NoReturn
               /\ now' = t
               /\ UNCHANGED state
       /\ UNCHANGED <<HeapVars, stats, stateLock, pc, PureVars>>

\* The dispatch a run() future awaits completes with Ok or Err; the future
\* runs on to its next suspension or to the end of run.
DispatchDone(f, ok, t) ==
    LET w == f.w
        s == statsOf[w]
        reqs == requests[w]
        end_time == t
        last == [idx |-> f.idx, ok |-> ok]
    IN /\ f \in inflight
       /\ w \notin dead
       /\ IF statsLock[s]
          THEN /\ Panic(w, "stats")
               /\ inflight' = inflight \ {f}
               /\ ghost' = Touch(w, "run")
               /\ out' = NoReturn
               /\ UNCHANGED <<stats, statsLock, state>>
          ELSE /\ stats' = [stats EXCEPT ![s] = complete_request(@, ok)]
               /\ IF CallContinues(f.idx, Len(reqs), ok)
                  THEN /\ inflight' = (inflight \ {f}) \cup
                             {[f EXCEPT !.idx = f.idx + 1,
                                        !.sent = Append(f.sent, reqs[f.idx + 1])]}
                       /\ statsLock' = CallStartRequest(s)
                       /\ ghost' = Touch(w, "run")
                       /\ NoPanic
                       /\ out' = NoReturn
                       /\ UNCHANGED state
                  ELSE /\ inflight' = inflight \ {f}
                       /\ statsLock' = [statsLock EXCEPT ![s] = FALSE]
                       /\ RunTail(ghost, w, f.cycle, f.start_time, end_time, f.sent,
                                  last, f.stale)
       /\ now' = (IF ~statsLock[s] /\ ~CallContinues(f.idx, Len(reqs), ok)
                  THEN end_time ELSE now)
       /\ UNCHANGED <<HeapVars, stateLock, budget, pc, PureVars>>

\* ----------------------------------------------------------------- reset
\* Mutant: reset sets the start time and keeps the counters.
ResetStateKeepsStats(ws, start_time) ==
    [start_time |-> start_time, fn_stats |-> ws.fn_stats]

\* Mutant: reset empties the histogram and keeps the counter.
ResetStateKeepsCount(ws, start_time) ==
    [start_time |-> start_time,
     fn_stats |-> [call_count |-> ws.fn_stats.call_count,
                   call_times_ns |-> EmptyBag]]

\* state.fn_stats = FnStats::default(); state.start_time = start_time
ResetState(ws, start_time) ==
    [start_time |-> start_time, fn_stats |-> FnStatsDefault]

\* self.context.reset_session_stats()
reset_session_stats(ss) == SessionStatsDefault

ResetGhost(w, start_time) ==
    [ghost EXCEPT ![w].wasReset = TRUE, ![w].stale = 0,
                  ![w].origin = start_time, ![w].lastOp = "reset"]

\* History only: the cycles in flight at a reset began before it.
MarkStale(w) ==
    {IF t.w = w THEN [t EXCEPT !.stale = TRUE] ELSE t : t \in inflight}

\* The critical section of reset, entered with the WorkloadState lock held.
ResetBody(w, start_time) ==
    LET c == stateOf[w]
        s == statsOf[w]
    IN /\ state' = [state EXCEPT ![c] = ResetState(@, start_time)]
       /\ ghost' = ResetGhost(w, start_time)
       /\ inflight' = MarkStale(w)
       /\ IF statsLock[s]
          THEN /\ Panic(w, "stats")
               /\ UNCHANGED stats
          ELSE /\ stats' = [stats EXCEPT ![s] = reset_session_stats(@)]
               /\ NoPanic
       /\ out' = NoReturn

Reset(w, start_time) ==
    /\ w \in live \ dead
    /\ budget > 0
    /\ budget' = budget - 1
    /\ IF stateLock[stateOf[w]]
       THEN /\ Panic(w, "state")
            /\ ghost' = Touch(w, "reset")
            /\ out' = NoReturn
            /\ UNCHANGED <<state, stats, inflight>>
       ELSE ResetBody(w, start_time)
    /\ UNCHANGED <<now, HeapVars, LockVars, pc, PureVars>>

\* ------------------------------------------------------------ take_stats
\* The WorkloadStats take_stats builds from the state it finds.
TakeStatsResult(ws, ss, end_time) ==
    [start_time |-> ws.start_time,
     end_time |-> end_time,
     function_stats |-> ws.fn_stats,
     session_stats |-> ss]

\* Mutant: take_stats leaves the counters in place.
TakeStatsStateKeepsStats(ws, end_time) ==
    [start_time |-> end_time, fn_stats |-> ws.fn_stats]

\* Mutant: take_stats leaves start_time as it was.
TakeStatsStateKeepsStart(ws, end_time) ==
    [start_time |-> ws.start_time, fn_stats |-> FnStatsDefault]

\* Mutant: take_stats zeroes the counter and keeps the histogram.
TakeStatsStateKeepsHistogram(ws, end_time) ==
    [start_time |-> end_time,
     fn_stats |-> [call_count |-> 0, call_times_ns |-> ws.fn_stats.call_times_ns]]

\* state.start_time = end_time; state.fn_stats = FnStats::default()
TakeStatsState(ws, end_time) ==
    [start_time |-> end_time, fn_stats |-> FnStatsDefault]

\* self.context().take_session_stats(): what it leaves behind
take_session_stats(ss) == SessionStatsDefault

TakeGhost(w, result) ==
    [ghost EXCEPT ![w].taken = @ + result.function_stats.call_count,
                  ![w].quiet = TRUE, ![w].stale = 0,
                  ![w].origin = result.end_time, ![w].lastOp = "take"]

\* The critical section of take_stats, entered with the lock held.
TakeStatsBody(w, end_time) ==
    LET c == stateOf[w]
        s == statsOf[w]
    IN IF statsLock[s]
       THEN /\ Panic(w, "stats")
            /\ ghost' = Touch(w, "take")
            /\ out' = NoReturn
            /\ UNCHANGED <<state, stats>>
       ELSE LET result == TakeStatsResult(state[c], stats[s], end_time)
            IN /\ out' = [kind |-> "take_stats", w |-> w, stats |-> result,
                          at |-> ghost[w]]
               /\ stats' = [stats EXCEPT ![s] = take_session_stats(@)]
               /\ state' = [state EXCEPT ![c] = TakeStatsState(@, end_time)]
               /\ ghost' = TakeGhost(w, result)
               /\ NoPanic

TakeStats(w, end_time) ==
    /\ w \in live \ dead
    /\ budget > 0
    /\ budget' = budget - 1
    /\ IF stateLock[stateOf[w]]
       THEN /\ Panic(w, "state")
            /\ ghost' = Touch(w, "take")
            /\ out' = NoReturn
            /\ UNCHANGED <<state, stats>>
       ELSE TakeStatsBody(w, end_time)
    /\ UNCHANGED <<now, HeapVars, LockVars, inflight, pc, PureVars>>

\* ------------------------------------------------------------------ Spec
Drive ==
    \/ \E w \in Workloads, t \in ClockReads : RunStart(w, ghost[w].started, t)
    \/ \E f \in inflight, ok \in BOOLEAN, t \in ClockReads : DispatchDone(f, ok, t)
    \/ \E w \in Workloads, start_time \in Times : Reset(w, start_time)
    \/ \E w \in Workloads, end_time \in Times : TakeStats(w, end_time)

\* One worker driving the workload it was given.
Next == Drive

Spec == Init /\ [][Next]_vars

\* A workload, its clone, and a driver for each.
InitClone ==
    /\ Constructed
    /\ budget = MaxCloneOps

NextClone ==
    \/ \E src \in Workloads, dst \in Workloads, t \in ClockReads : Clone(src, dst, t)
    \/ Drive

SpecClone == InitClone /\ [][NextClone]_vars

\* ----------------------------------------------------------- SpecThreads
\* Workload 1 is shared by reference between the threads (TryLock<T> is Sync),
\* so a thread can reach try_lock while another is inside a critical
\* section.  A thread is idle, about to execute self.state.try_lock()
\* ("try_lock"), inside the critical section ("locked"), or has panicked.
\* The statements on the SessionStats lock (lines 90 and 101) are taken as
\* one step each and never found contended here: a panic there ends the
\* thread before it reaches the WorkloadState lock.
Shared == 1

Idle == [at |-> "idle"]

\* Mutant: the lock is handed out whether or not it is held.
try_lock_unchecked(locked) == "Some"

\* self.state.try_lock(): None when the lock is held, else the guard.
try_lock(locked) == IF locked THEN "None" ELSE "Some"

\* run(cycle) on thread th, up to its first await or up to line 122.
TRunStart(th, cycle, t) ==
    LET w == Shared
        s == statsOf[w]
        reqs == requests[w]
    IN /\ pc[th] = Idle
       /\ budget > 0
       /\ Cardinality(InFlightOf(w)) < Concurrency
       /\ budget' = budget - 1
       /\ now' = t
       /\ ghost' = Started(Touch(w, "run"), w)
       /\ IF reqs = <<>>
          THEN /\ pc' = [pc EXCEPT ![th] =
                     [at |-> "try_lock", op |-> "run", cycle |-> cycle,
                      start_time |-> t, end_time |-> t, sent |-> <<>>,
                      last |-> [idx |-> 0, ok |-> TRUE], stale |-> FALSE]]
               /\ UNCHANGED <<inflight, statsLock>>
          ELSE /\ inflight' = inflight \cup
                     {[w |-> w, cycle |-> cycle, start_time |-> t,
                       idx |-> 1, stale |-> FALSE, sent |-> <<reqs[1]>>]}
               /\ statsLock' = CallStartRequest(s)
               /\ UNCHANGED pc
       /\ out' = NoReturn
       /\ UNCHANGED <<HeapVars, state, stats, stateLock, contended, dead, PureVars>>

\* Thread th polls the future f whose dispatch has completed.
TDispatchDone(th, f, ok, t) ==
    LET w == f.w
        s == statsOf[w]
        reqs == requests[w]
    IN /\ pc[th] = Idle
       /\ f \in inflight
       /\ now' = (IF CallContinues(f.idx, Len(reqs), ok) THEN now ELSE t)
       /\ stats' = [stats EXCEPT ![s] = complete_request(@, ok)]
       /\ ghost' = Touch(w, "run")
       /\ IF CallContinues(f.idx, Len(reqs), ok)
          THEN /\ inflight' = (inflight \ {f}) \cup
                     {[f EXCEPT !.idx = f.idx + 1,
                                !.sent = Append(f.sent, reqs[f.idx + 1])]}
               /\ statsLock' = CallStartRequest(s)
               /\ out' = NoReturn
               /\ UNCHANGED pc
          ELSE /\ inflight' = inflight \ {f}
               /\ pc' = [pc EXCEPT ![th] =
                     [at |-> "try_lock", op |-> "run", cycle |-> f.cycle,
                      start_time |-> f.start_time, end_time |-> t,
                      sent |-> f.sent, last |-> [idx |-> f.idx, ok |-> ok],
                      stale |-> f.stale]]
               /\ out' = NoReturn
               /\ UNCHANGED statsLock
       /\ UNCHANGED <<HeapVars, state, stateLock, budget, contended, dead, PureVars>>

\* Thread th calls reset(arg) or take_stats(arg).
TCall(th, op, arg) ==
    /\ pc[th] = Idle
    /\ budget > 0
    /\ budget' = budget - 1
    /\ pc' = [pc EXCEPT ![th] = [at |-> "try_lock", op |-> op, arg |-> arg]]
    /\ out' = NoReturn
    /\ UNCHANGED <<PureVars, now, HeapVars, state, stats, LockVars, inflight, ghost,
                   contended, dead>>

\* let mut state = self.state.try_lock().unwrap(): the guard, or a panic.
TTryLock(th) ==
    LET c == stateOf[Shared]
    IN /\ pc[th].at = "try_lock"
       /\ IF try_lock(stateLock[c]) = "None"
          THEN /\ pc' = [pc EXCEPT ![th] = [at |-> "panicked"]]
               /\ contended' = contended \cup {"state"}
               /\ UNCHANGED stateLock
          ELSE /\ pc' = [pc EXCEPT ![th].at = "locked"]
               /\ stateLock' = [stateLock EXCEPT ![c] = TRUE]
               /\ UNCHANGED contended
       /\ out' = NoReturn
       /\ UNCHANGED <<PureVars, now, HeapVars, state, stats, statsLock, inflight, ghost,
                      budget, dead>>

\* The critical section of the handler thread th is in, and the drop of its
\* guard.
TBody(th) ==
    LET w == Shared
        j == pc[th]
    IN /\ j.at = "locked"
       /\ IF j.op = "run"
          THEN /\ RunBody(ghost, w, j.cycle, j.start_time, j.end_time, j.sent,
                          j.last, j.stale)
               /\ UNCHANGED <<stats, inflight>>
          ELSE IF j.op = "reset"
          THEN ResetBody(w, j.arg)
          ELSE /\ TakeStatsBody(w, j.arg)
               /\ UNCHANGED inflight
       /\ stateLock' = [stateLock EXCEPT ![stateOf[w]] = FALSE]
       /\ pc' = [pc EXCEPT ![th] = Idle]
       /\ UNCHANGED <<now, HeapVars, statsLock, budget, PureVars>>

InitThreads ==
    /\ Constructed
    /\ budget = MaxThreadOps

NextThreads ==
    \/ \E th \in Threads, t \in ClockReads :
          TRunStart(th, ghost[Shared].started, t)
    \/ \E th \in Threads, f \in inflight, ok \in BOOLEAN, t \in ClockReads :
          TDispatchDone(th, f, ok, t)
    \/ \E th \in Threads, op \in {"reset", "take_stats"}, arg \in Times :
          TCall(th, op, arg)
    \/ \E th \in Threads : TTryLock(th)
    \/ \E th \in Threads : TBody(th)

SpecThreads == InitThreads /\ [][NextThreads]_vars

\* ----------------------------------------------------------- SpecFnStats
\* One FnStats, given durations of any length: zero, ordinary, u64::MAX
\* nanoseconds and beyond (as_nanos() is a u128: up to twice the range of a
\* u64 here), and zeroed as reset and take_stats zero it.
Durations == 0..(2 * U64_MAX + 3)

\* The workload engine, not constructed.
NoWorkload ==
    /\ now = 0
    /\ live = {}
    /\ stateOf = [w \in Workloads |-> NoCell]
    /\ statsOf = [w \in Workloads |-> NoCell]
    /\ requests = [w \in Workloads |-> <<>>]
    /\ state = [c \in Cells |-> WorkloadStateDefault(0)]
    /\ stateLock = [c \in Cells |-> FALSE]
    /\ stats = [c \in Cells |-> SessionStatsDefault]
    /\ statsLock = [c \in Cells |-> FALSE]
    /\ inflight = {}
    /\ out = NoReturn
    /\ ghost = [w \in Workloads |-> GhostDefault(0)]
    /\ contended = {}
    /\ dead = {}
    /\ pc = [th \in Threads |-> [at |-> "idle"]]
    /\ budget = 0

IntervalVars == <<text, parsed, probe>>
RateVars == <<cmd, rates>>

InitFnStats ==
    /\ NoWorkload
    /\ fstats = FnStatsDefault
    /\ applied = <<>>
    /\ text = Unset /\ parsed = Unset /\ probe = Unset
    /\ cmd = Unset /\ rates = Unset

\* state.fn_stats.operation_completed(end_time - start_time)
Record(duration) ==
    /\ Len(applied) < MaxCalls
    /\ fstats' = operation_completed(fstats, duration)
    /\ applied' = Append(applied, duration)
    /\ UNCHANGED <<WorkloadVars, budget, IntervalVars, RateVars>>

\* state.fn_stats = FnStats::default()
Zero ==
    /\ applied # <<>>
    /\ fstats' = FnStatsDefault
    /\ applied' = <<>>
    /\ UNCHANGED <<WorkloadVars, budget, IntervalVars, RateVars>>

NextFnStats ==
    \/ \E duration \in Durations : Record(duration)
    \/ Zero

SpecFnStats == InitFnStats /\ [][NextFnStats]_vars

\* -------------------------------------------------------------- f64
\* An f64 is a number on a grid of 1/Scale, or NaN, or an infinity.  Sums,
\* products and quotients are exact up to the grid; log10 and exp are
\* computed digit by digit and are good to about two decimal places.
Scale == 1000

F(v) == [k |-> "num", v |-> v]
NaN == [k |-> "nan"]
PosInf == [k |-> "inf"]
NegInf == [k |-> "-inf"]

\* n as f64, for an integer n.
FromInt(n) == F(n * Scale)

IsNum(a) == a.k = "num"

Sign(a) ==
    IF a.k = "inf" THEN 1
    ELSE IF a.k = "-inf" THEN -1
    ELSE IF a.v > 0 THEN 1 ELSE IF a.v < 0 THEN -1 ELSE 0

FNeg(a) ==
    IF a.k = "num" THEN F(-a.v)
    ELSE IF a.k = "inf" THEN NegInf
    ELSE IF a.k = "-inf" THEN PosInf
    ELSE NaN

\* a - b
FSub(a, b) ==
    IF a.k = "nan" \/ b.k = "nan" THEN NaN
    ELSE IF IsNum(a) /\ IsNum(b) THEN F(a.v - b.v)
    ELSE IF IsNum(b) THEN a
    ELSE IF IsNum(a) THEN FNeg(b)
    ELSE IF a.k = b.k THEN NaN ELSE a

\* a * b
FMul(a, b) ==
    IF a.k = "nan" \/ b.k = "nan" THEN NaN
    ELSE IF IsNum(a) /\ IsNum(b) THEN F((a.v * b.v) \div Scale)
    ELSE IF Sign(a) * Sign(b) = 0 THEN NaN
    ELSE IF Sign(a) * Sign(b) > 0 THEN PosInf ELSE NegInf

\* a / b
FDiv(a, b) ==
    IF a.k = "nan" \/ b.k = "nan" THEN NaN
    ELSE IF IsNum(a) /\ IsNum(b)
    THEN IF b.v # 0 THEN F((a.v * Scale) \div b.v)
         ELSE IF a.v = 0 THEN NaN
         ELSE IF a.v > 0 THEN PosInf ELSE NegInf
    ELSE IF ~IsNum(a) /\ ~IsNum(b) THEN NaN
    ELSE IF IsNum(a) THEN F(0)
    ELSE IF Sign(a) * Sign(b) >= 0 THEN a ELSE FNeg(a)

\* y / Scale brought into [1, 10) and the power of ten taken out of it.
RECURSIVE Decade(_, _)
Decade(y, k) ==
    IF y >= 10 * Scale THEN Decade(y \div 10, k + 1)
    ELSE IF y < Scale THEN Decade(y * 10, k - 1)
    ELSE [y |-> y, k |-> k]

\* The binary digits of log10(y / Scale) for y / Scale in [1, 10), by
\* repeated squaring; w is the weight of the next digit, in 1/Scale^2.
RECURSIVE Log10Digits(_, _, _)
Log10Digits(y, w, acc) ==
    IF w < Scale
    THEN acc
    ELSE LET sq == (y * y) \div Scale
         IN IF sq >= 10 * Scale
            THEN Log10Digits(sq \div 10, w \div 2, acc + w)
            ELSE Log10Digits(sq, w \div 2, acc)

\* f64::log10
FLog10(a) ==
    IF a.k = "nan" \/ a.k = "-inf" THEN NaN
    ELSE IF a.k = "inf" THEN PosInf
    ELSE IF a.v < 0 THEN NaN
    ELSE IF a.v = 0 THEN NegInf
    ELSE LET d == Decade(a.v, 0)
         IN F(d.k * Scale + Log10Digits(d.y, (Scale * Scale) \div 2, 0) \div Scale)

\* The series of e^(x / Scale) for x >= 0, term by term.
RECURSIVE ExpSeries(_, _, _, _)
ExpSeries(x, term, n, acc) ==
    IF term = 0
    THEN acc
    ELSE ExpSeries(x, (term * x) \div (n * Scale), n + 1, acc + term)

\* std::f64::consts::E.powf(a)
FExp(a) ==
    IF a.k = "nan" THEN NaN
    ELSE IF a.k = "inf" THEN PosInf
    ELSE IF a.k = "-inf" THEN F(0)
    ELSE IF a.v >= 0 THEN F(ExpSeries(a.v, Scale, 1, 0))
    ELSE F((Scale * Scale) \div ExpSeries(-a.v, Scale, 1, 0))

\* -------------------------------------------------------------- SpecRate
\* RpcCommand, as far as parse_rate reads it: num_req: Option<usize>,
\* exp_ramp: Option<u64>, rate: Option<Vec<f64>>.
None == [some |-> FALSE]
Some(x) == [some |-> TRUE, v |-> x]

\* let num_values = 10
num_values == 10
\* The 10 of (10 / num_req)
BaseRate == 10

NumReqs == 0..MaxNumReq
Ceilings == {5, 10, 1000, 2000}
RateValues == {FromInt(5), FromInt(100)}
RateLists == UNION {[1..n -> RateValues] : n \in 0..MaxRates}

Commands ==
    [num_req : {None} \cup {Some(n) : n \in NumReqs},
     exp_ramp : {None} \cup {Some(c) : c \in Ceilings},
     rate : {None} \cup {Some(l) : l \in RateLists}]

set_num_req(c, num_req) ==
    IF ~c.num_req.some THEN [c EXCEPT !.num_req = Some(num_req)] ELSE c

\* Mutant: the rate list is looked at first.
RateModeFlatFirst(c) ==
    IF c.rate.some THEN "flat"
    ELSE IF c.exp_ramp.some THEN "ramp"
    ELSE "none"

\* The order of the two `if let` of parse_rate.
RateMode(c) ==
    IF c.exp_ramp.some THEN "ramp"
    ELSE IF c.rate.some THEN "flat"
    ELSE "none"

\* The body of the for loop, for i in 0..num_values.
RampRate(start_rate, max_rate, i) ==
    LET ratio == FDiv(FromInt(i), FromInt(num_values - 1))
    IN FMul(start_rate,
            FExp(FMul(FSub(FLog10(max_rate), FLog10(start_rate)), ratio)))

\* r / num_req as f64
FlatRate(r, num_req) == FDiv(r, FromInt(num_req))

\* parse_rate(&self): Some(rates), None, or a panic.  10 / num_req and
\* max_rate / num_req as u64 are divisions of integers.
parse_rate(c) ==
    IF ~c.num_req.some
    THEN [kind |-> "panic", why |-> "unwrap on None"]
    ELSE LET num_req == c.num_req.v
         IN IF RateMode(c) = "ramp"
            THEN IF num_req = 0
                 THEN [kind |-> "panic", why |-> "divide by zero"]
                 ELSE LET start_rate == FromInt(BaseRate \div num_req)
                          max_rate == FromInt(c.exp_ramp.v \div num_req)
                      IN [kind |-> "Some",
                          v |-> [i \in 1..num_values |->
                                    RampRate(start_rate, max_rate, i - 1)]]
            ELSE IF RateMode(c) = "flat"
            THEN [kind |-> "Some",
                  v |-> [i \in 1..Len(c.rate.v) |-> FlatRate(c.rate.v[i], num_req)]]
            ELSE [kind |-> "None"]

InitRate ==
    /\ NoWorkload
    /\ fstats = FnStatsDefault /\ applied = <<>>
    /\ text = Unset /\ parsed = Unset /\ probe = Unset
    /\ cmd \in Commands
    /\ rates = Unset

\* conf.set_num_req(n), before the rates are parsed.
SetNumReq(n) ==
    /\ rates = Unset
    /\ cmd' = set_num_req(cmd, n)
    /\ UNCHANGED <<WorkloadVars, budget, fstats, applied, IntervalVars, rates>>

ParseRate ==
    /\ rates = Unset
    /\ rates' = parse_rate(cmd)
    /\ UNCHANGED <<WorkloadVars, budget, fstats, applied, IntervalVars, cmd>>

NextRate ==
    \/ \E n \in NumReqs : SetNumReq(n)
    \/ ParseRate

SpecRate == InitRate /\ [][NextRate]_vars

\* ================================================ Interval (config.rs)
\* Interval values, their two predicates and FromStr, on their own: a text
\* is parsed once and an interval is probed once.  Texts are sequences of
\* characters; u64 is as wide as U64_MAX; durations are in milliseconds.

Ok(v) == [ok |-> TRUE, v |-> v]
Err(e) == [ok |-> FALSE, e |-> e]

\* enum Interval
Count(n) == [tag |-> "Count", n |-> n]
Time(d) == [tag |-> "Time", d |-> d]
Unbounded == [tag |-> "Unbounded"]

\* Interval::is_not_zero with the Count arm always true.
is_not_zero_any_count(iv) ==
    CASE iv.tag = "Count" -> TRUE
      [] iv.tag = "Time" -> iv.d # 0
      [] iv.tag = "Unbounded" -> FALSE

\* Interval::is_not_zero
is_not_zero(iv) ==
    CASE iv.tag = "Count" -> iv.n > 0
      [] iv.tag = "Time" -> iv.d # 0
      [] iv.tag = "Unbounded" -> FALSE

\* Interval::is_bounded
is_bounded(iv) == iv.tag # "Unbounded"

DigitChars == {"0", "1", "5"}
Alphabet == DigitChars \cup {"+", "s", "m", "x"}
Texts == UNION {[1..n -> Alphabet] : n \in 0..MaxText}

DigitValue(c) ==
    CASE c = "0" -> 0
      [] c = "1" -> 1
      [] c = "5" -> 5

IsDigits(s) == \A i \in 1..Len(s) : s[i] \in DigitChars

\* The decimal value of a digit string, unchecked.
RECURSIVE Decimal(_, _)
Decimal(s, acc) ==
    IF s = <<>> THEN acc
    ELSE Decimal(Tail(s), acc * 10 + DigitValue(Head(s)))

\* str::parse::<u64>: an optional "+", then digits only, at least one; the
\* value is accumulated with checked arithmetic.
parse_u64(s) ==
    IF s = <<>> THEN Err("empty")
    ELSE LET digits == IF Head(s) = "+" THEN Tail(s) ELSE s
         IN  IF digits = <<>> \/ ~IsDigits(digits) THEN Err("invalid digit")
             ELSE IF Decimal(digits, 0) > U64_MAX THEN Err("overflow")
             ELSE Ok(Decimal(digits, 0))

Units == {<<"s">>, <<"m">>, <<"m", "s">>}

\* Milliseconds in one unit.
UnitMillis(u) ==
    CASE u = <<"s">> -> 1000
      [] u = <<"m">> -> 60000
      [] u = <<"m", "s">> -> 1

\* How many digits s starts with.
RECURSIVE LeadingDigits(_)
LeadingDigits(s) ==
    IF s = <<>> \/ Head(s) \notin DigitChars THEN 0
    ELSE 1 + LeadingDigits(Tail(s))

\* parse_duration::parse, of a crate outside this repository, as far as the
\* call site relies on it: a number followed by a unit is that duration; a
\* text that is neither a number nor a number with a unit is an error; a
\* bare or signed number may be taken as seconds or refused (both results
\* are possible here).  The set of results the call may give on s.
parse_duration(s) ==
    LET signed == s # <<>> /\ Head(s) = "+"
        body == IF signed THEN Tail(s) ELSE s
        k == LeadingDigits(body)
        number == SubSeq(body, 1, k)
        unit == SubSeq(body, k + 1, Len(body))
        millis == Decimal(number, 0) *
                      (IF unit = <<>> THEN 1000 ELSE UnitMillis(unit))
    IN  IF k = 0 \/ unit \notin Units \cup {<<>>} THEN {Err("duration")}
        ELSE IF signed \/ unit = <<>> THEN {Ok(millis), Err("duration")}
        ELSE {Ok(millis)}

NotAnInterval == "Required integer number of cycles or time duration"

\* Interval::from_str with the duration tried before the integer.
from_str_duration_first(s, d) ==
    IF d.ok THEN Ok(Time(d.v))
    ELSE IF parse_u64(s).ok THEN Ok(Count(parse_u64(s).v))
    ELSE Err(NotAnInterval)

\* Interval::from_str(s); d is what parse_duration::parse(s) gives.
from_str(s, d) ==
    IF parse_u64(s).ok THEN Ok(Count(parse_u64(s).v))
    ELSE IF d.ok THEN Ok(Time(d.v))
    ELSE Err(NotAnInterval)

ProbedTimes == {0, 1, 1000}
Intervals ==
    {Unbounded} \cup {Count(n) : n \in 0..U64_MAX}
                \cup {Time(d) : d \in ProbedTimes}

InitInterval ==
    /\ NoWorkload
    /\ fstats = FnStatsDefault /\ applied = <<>>
    /\ cmd = Unset /\ rates = Unset
    /\ text \in Texts
    /\ parsed = Unset
    /\ probe = Unset

\* text.parse::<Interval>()
FromStr ==
    /\ parsed = Unset
    /\ \E d \in parse_duration(text) : parsed' = from_str(text, d)
    /\ UNCHANGED <<WorkloadVars, budget, fstats, applied, text, probe,
                   RateVars>>

\* interval.is_not_zero() and interval.is_bounded(), on the interval parsed
\* or on any other one.
Probe(iv) ==
    /\ probe = Unset
    /\ probe' = [iv |-> iv, not_zero |-> is_not_zero(iv),
                 bounded |-> is_bounded(iv)]
    /\ UNCHANGED <<WorkloadVars, budget, fstats, applied, text, parsed,
                   RateVars>>

NextInterval ==
    \/ FromStr
    \/ \E iv \in Intervals \cup
                 (IF parsed # Unset /\ parsed.ok THEN {parsed.v} ELSE {}) :
           Probe(iv)

SpecInterval == InitInterval /\ [][NextInterval]_vars

\* ============================================================ properties
Held(w) == state[stateOf[w]].fn_stats
Driven == live \ dead
Snapshot == out.kind = "take_stats"
Returned == out.kind = "run"

\* C1: with no reset so far, the call_count of all snapshots returned plus the
\* call_count still held equals the number of run calls that have completed:
\* every completed cycle is in exactly one place.
C1_EveryCycleCountedOnce ==
    \A w \in Driven :
        ~ghost[w].wasReset =>
            ghost[w].taken + Held(w).call_count = ghost[w].completed

\* Cycles are held and cycles have been handed out in a snapshot, no reset.
C1_Witness ==
    /\ ~ghost[1].wasReset
    /\ ghost[1].taken >= 1
    /\ Held(1).call_count >= 1

\* C2 (as stated): no snapshot counts a cycle whose run began before the
\* last reset, cycles in flight at the reset included.
C2_WarmupNeverCounted ==
    Snapshot => out.at.stale = 0

\* C3: run(cycle) returns Ok((cycle, end_time)) with the cycle it was given
\* and the instant it read at its end, whatever the dispatches returned.
C3_RunReturnsOkWithItsCycle ==
    Returned =>
        /\ out.ret.kind = "Ok"
        /\ out.ret.cycle = out.arg
        /\ out.ret.end_time = now

\* A run of a two-request workload returns after both dispatches failed.
C3_Witness ==
    /\ Returned
    /\ Len(requests[1]) = 2
    /\ ghost[1].started = 1
    /\ stats[statsOf[1]].req_errors = 2

\* C4: take_stats(end_time) leaves start_time at end_time, and the snapshot's
\* start_time is the instant given by the previous take_stats, or by the last
\* reset or the construction when those are later.
C4_SnapshotsContiguous ==
    /\ \A w \in Driven : state[stateOf[w]].start_time = ghost[w].origin
    /\ Snapshot =>
          /\ out.stats.start_time = out.at.origin
          /\ state[stateOf[out.w]].start_time = out.stats.end_time

\* A snapshot that starts where the previous snapshot ended, after time 0.
C4_Witness ==
    /\ Snapshot
    /\ out.at.lastOp = "take"
    /\ ~out.at.wasReset
    /\ out.stats.start_time >= 1

\* C5: a take_stats with no run completed since the previous take_stats
\* returns call_count 0 and an empty histogram.
C5_SecondTakeIsEmpty ==
    (Snapshot /\ out.at.quiet) =>
        /\ out.stats.function_stats.call_count = 0
        /\ out.stats.function_stats.call_times_ns = EmptyBag

\* The previous snapshot held a cycle; nothing completed since.
C5_Witness ==
    /\ Snapshot
    /\ out.at.quiet
    /\ out.at.taken >= 1

\* C6: right after reset(start_time) the state is zeroed and starts at
\* start_time, and a take_stats issued next returns just that.
C6_ResetZeroes ==
    /\ \A w \in Driven :
          ghost[w].lastOp = "reset" =>
              /\ state[stateOf[w]] = WorkloadStateDefault(ghost[w].origin)
              /\ stats[statsOf[w]] = SessionStatsDefault
    /\ (Snapshot /\ out.at.lastOp = "reset") =>
          /\ out.stats.start_time = out.at.origin
          /\ out.stats.function_stats.call_count = 0
          /\ out.stats.session_stats = SessionStatsDefault

\* A reset at time 1 discarded a completed cycle; take_stats came next.
C6_Witness ==
    /\ Snapshot
    /\ out.at.lastOp = "reset"
    /\ out.at.completed >= 1
    /\ out.at.origin >= 1

\* C7: clone yields a fresh WorkloadState of its own and the same request
\* list; afterwards a step that is no handler segment of a workload leaves
\* that workload's fn_stats and start_time alone.
C7_CloneIsolated ==
    [][/\ (2 \notin live /\ 2 \in live') =>
              /\ stateOf'[2] # stateOf'[1]
              /\ state'[stateOf'[2]].fn_stats = FnStatsDefault
              /\ requests'[2] = requests[1]
              /\ state'[stateOf'[1]] = state[stateOf[1]]
       /\ \A w \in live', v \in live' : w # v => stateOf'[w] # stateOf'[v]
       /\ \A w \in live :
              ghost'[w] = ghost[w] => state'[stateOf[w]] = state[stateOf[w]]]_vars

\* The original holds a cycle, the clone has been driven and holds none.
C7_Witness ==
    /\ 2 \in live
    /\ Held(1).call_count >= 1
    /\ ghost[2].lastOp = "take"
    /\ Held(2).call_count = 0

\* C8: under one cooperative driver no try_lock finds a lock held: nobody
\* has panicked and no guard is held at a suspension point.
C8_LocksNeverContended ==
    /\ contended = {}
    /\ dead = {}
    /\ \A c \in Cells : ~stateLock[c] /\ ~statsLock[c]

\* As many cycles in flight as the concurrency limit allows while the driver
\* has just called reset or take_stats.
C8_Witness ==
    /\ Cardinality(InFlightOf(1)) = Concurrency
    /\ ghost[1].lastOp \in {"reset", "take"}

\* C9: at most one thread is inside a critical section of WorkloadState; a
\* try_lock that finds the lock held panics in that very step, never waits,
\* and leaves the state and the lock as they are; only the owner changes
\* the state.
OneOwner ==
    /\ Cardinality({th \in Threads : pc[th].at = "locked"}) <= 1
    /\ \A th \in Threads : pc[th].at = "try_lock" => ENABLED TTryLock(th)

C9_ContentionFailsFast ==
    /\ []OneOwner
    /\ [][/\ \A th \in Threads :
                (pc[th].at = "try_lock" /\ pc'[th] # pc[th]) =>
                    IF stateLock[stateOf[Shared]]
                    THEN /\ pc'[th].at = "panicked"
                         /\ state' = state
                         /\ stateLock' = stateLock
                    ELSE pc'[th].at = "locked"
          /\ state' # state =>
                \E th \in Threads : pc[th].at = "locked" /\ pc'[th] = Idle]_vars

\* A thread has panicked at try_lock while another is in its critical section.
C9_Witness ==
    \E th \in Threads, other \in Threads :
        /\ pc[th].at = "panicked"
        /\ pc[other].at = "locked"
        /\ "state" \in contended

\* C10: every completed dispatch is reported once to SessionStats with its
\* result; after request idx of n the loop goes on to request idx + 1 when
\* there is one, failed or not; the requests dispatched so far are the first
\* idx of the list, each once, and call() ends only after the last one.
C10_ErrorsRecordedLoopGoesOn ==
    [][\A f \in inflight \ inflight', ok \in BOOLEAN :
          DispatchDone(f, ok, now') =>
              LET w == f.w
                  s == statsOf[w]
                  n == Len(requests[w])
              IN /\ stats'[s].req_count = stats[s].req_count + 1
                 /\ stats'[s].req_errors =
                        stats[s].req_errors + (IF ok THEN 0 ELSE 1)
                 /\ f.sent = SubSeq(requests[w], 1, f.idx)
                 /\ IF f.idx < n
                    THEN /\ [f EXCEPT !.idx = f.idx + 1,
                                      !.sent = SubSeq(requests[w], 1, f.idx + 1)]
                                \in inflight'
                         /\ out'.kind # "run"
                    ELSE /\ f \notin inflight'
                         /\ out'.kind = "run"
                         /\ out'.arg = f.cycle]_vars

\* The first dispatch of the only cycle failed and its second request is in
\* flight.
C10_Witness ==
    /\ ghost[1].started = 1
    /\ stats[statsOf[1]] = [req_count |-> 1, req_errors |-> 1]
    /\ \E f \in inflight : f.idx = 2

\* C11: k calls of operation_completed since the FnStats was zeroed leave
\* call_count at k, whatever the durations; a step that does not zero the
\* FnStats never lowers call_count, and a call raises it by exactly one.
CountIsCalls == fstats.call_count = Len(applied)

C11_CallCountCountsCalls ==
    /\ []CountIsCalls
    /\ [][\/ fstats'.call_count = fstats.call_count + 1
          \/ fstats' = FnStatsDefault]_vars

\* Two calls, one of them with a zero duration.
C11_Witness ==
    /\ fstats.call_count = 2
    /\ \E i \in 1..Len(applied) : applied[i] = 0

\* What the histogram is to hold for a duration of d nanoseconds.
Recorded(d) == IF d = 0 THEN 1 ELSE IF d > U64_MAX THEN U64_MAX ELSE d

RECURSIVE RecordedBag(_)
RecordedBag(ds) ==
    IF ds = <<>>
    THEN EmptyBag
    ELSE SetToBag({Recorded(Head(ds))}) (+) RecordedBag(Tail(ds))

\* C12: the histogram holds, for every duration given, that duration clamped
\* to [1, u64::MAX]: 1 for a zero duration, u64::MAX for a duration beyond
\* u64::MAX, never 0 and never a wrapped value.
C12_DurationsClamped ==
    /\ fstats.call_times_ns = RecordedBag(applied)
    /\ \A v \in BagToSet(fstats.call_times_ns) : 1 <= v /\ v <= U64_MAX

\* A zero duration and one beyond u64::MAX have been recorded, as 1 and as
\* u64::MAX.
C12_Witness ==
    /\ \E i \in 1..Len(applied) : applied[i] = 0
    /\ \E i \in 1..Len(applied) : applied[i] > U64_MAX + 1
    /\ BagToSet(fstats.call_times_ns) = {1, U64_MAX}

\* ------------------------------------------------------------ parse_rate
Ramp == rates.kind = "Some" /\ cmd.exp_ramp.some

\* a <= b on f64: false when either is NaN.
FLeq(a, b) ==
    /\ a.k # "nan" /\ b.k # "nan"
    /\ \/ a.k = "-inf"
       \/ b.k = "inf"
       \/ IsNum(a) /\ IsNum(b) /\ a.v <= b.v

\* a = b up to what log10 and exp lose here (a tenth).
FNear(a, b) ==
    /\ IsNum(a) /\ IsNum(b)
    /\ a.v - b.v <= Scale \div 10
    /\ b.v - a.v <= Scale \div 10

\* C13 (as stated): the last of the ten rates of a ramp is end, the ceiling
\* divided by num_req.
C13_LastRateIsEnd ==
    Ramp =>
        FNear(rates.v[num_values],
              FDiv(FromInt(cmd.exp_ramp.v), FromInt(cmd.num_req.v)))

\* C14 (as stated): a ramp has ten rates and the first one is start, 10
\* divided by num_req, for every num_req >= 1.
C14_FirstRateIsStart ==
    Ramp =>
        /\ Len(rates.v) = 10
        /\ rates.v[1] = FDiv(FromInt(10), FromInt(cmd.num_req.v))

\* C15 (as stated): the rates of a ramp never decrease, for every ceiling
\* and every num_req >= 1.
C15_RampNeverDecreases ==
    Ramp => \A i \in 1..(Len(rates.v) - 1) : FLeq(rates.v[i], rates.v[i + 1])

\* v is r / n on the grid.
IsQuotient(v, r, n) ==
    /\ IsNum(v)
    /\ v.v * n <= r.v
    /\ r.v < (v.v + 1) * n

\* C16: with num_req >= 1, a ceiling gives the ramp (ten rates, however
\* many the rate list has) whether or not a rate list is given; with no
\* ceiling, a rate list gives one rate per entry, each the entry divided by
\* num_req, in the order given; with neither, the result is None.
C16_ModeSelection ==
    (rates # Unset /\ cmd.num_req.some /\ cmd.num_req.v >= 1) =>
        IF cmd.exp_ramp.some
        THEN /\ rates.kind = "Some"
             /\ Len(rates.v) = 10
        ELSE IF cmd.rate.some
        THEN /\ rates.kind = "Some"
             /\ Len(rates.v) = Len(cmd.rate.v)
             /\ \A i \in 1..Len(cmd.rate.v) :
                    IsQuotient(rates.v[i], cmd.rate.v[i], cmd.num_req.v)
        ELSE rates.kind = "None"

\* A ceiling and a list of two rates are configured, num_req is 2: the ramp
\* is returned.
C16_Witness ==
    /\ cmd.exp_ramp.some
    /\ cmd.rate.some /\ Len(cmd.rate.v) = 2
    /\ cmd.num_req = Some(2)
    /\ rates.kind = "Some" /\ Len(rates.v) = 10

\* C17 (as stated): parse_rate never computes with num_req = 0: no rates
\* come out of it and no division by zero happens in it.
C17_ZeroNumReqRejected ==
    cmd.num_req = Some(0) => rates.kind \notin {"Some", "panic"}

\* C18: is_not_zero is false exactly for Unbounded, Count(0) and a Time of
\* length zero; so is_not_zero implies is_bounded; and is_bounded is false
\* for Unbounded only.
C18_ZeroAndBounded ==
    probe # Unset =>
        /\ ~probe.not_zero <=>
               (probe.iv = Unbounded \/ probe.iv = Count(0)
                    \/ probe.iv = Time(0))
        /\ probe.not_zero => probe.bounded
        /\ ~probe.bounded <=> probe.iv = Unbounded

\* Count(0) has been probed: it is zero and bounded.
C18_Witness ==
    /\ probe # Unset
    /\ probe.iv = Count(0)
    /\ ~probe.not_zero
    /\ probe.bounded

\* s is a number followed by a unit.
HasUnit(s) ==
    /\ LeadingDigits(s) > 0
    /\ SubSeq(s, LeadingDigits(s) + 1, Len(s)) \in Units

\* s has no digit in it, or a character that is of no number and no unit.
Unrecognised(s) ==
    \/ \A i \in 1..Len(s) : s[i] \notin DigitChars
    \/ \E i \in 1..Len(s) : s[i] = "x"

OnlyRuns == ghost[1].started + budget = MaxOps

\* The requests the cycles in flight (S) have had completed.
RECURSIVE CompletedInFlight(_)
CompletedInFlight(S) ==
    IF S = {} THEN 0
    ELSE LET f == CHOOSE x \in S : TRUE
         IN  (f.idx - 1) + CompletedInFlight(S \ {f})

\* C20: while only run() has been called, SessionStats has counted n
\* requests for every completed cycle, n being the length of the request
\* list, and idx - 1 for a cycle in flight at its request idx, whose
\* requests so far are the first idx of the list in order; fn_stats has
\* counted one call for every completed cycle and none for a cycle in
\* flight.
C20_RequestsAndCycles ==
    OnlyRuns =>
        LET n == Len(requests[1])
            done == ghost[1].started - Cardinality(inflight)
        IN /\ stats[statsOf[1]].req_count =
                   n * done + CompletedInFlight(inflight)
           /\ Held(1).call_count = done
           /\ ghost[1].completed = done
           /\ \A f \in inflight :
                  /\ f.idx \in 1..n
                  /\ f.sent = SubSeq(requests[1], 1, f.idx)

\* Two requests a cycle: one cycle has completed and the next is at its
\* second request.
C20_Witness ==
    /\ OnlyRuns
    /\ Len(requests[1]) = 2
    /\ Held(1).call_count = 1
    /\ stats[statsOf[1]].req_count = 3
    /\ \E f \in inflight : f.idx = 2

\* C21 (as stated): a snapshot returned by take_stats of a workload never
\* reset, cycles in flight or not, has n request completions in its
\* session_stats for each call in its function_stats, n being the number of
\* requests of a cycle.
C21_SnapshotConsistent ==
    (Snapshot /\ ~out.at.wasReset) =>
        out.stats.session_stats.req_count =
            Len(requests[out.w]) * out.stats.function_stats.call_count

\* The samples fs holds are as many as the calls it has counted.
CountMatchesSamples(fs) == fs.call_count = BagCardinality(fs.call_times_ns)

\* C22: the FnStats of every workload state, and of every snapshot
\* take_stats returns, has counted as many calls as its histogram holds
\* samples.
C22_CountIsSamples ==
    /\ \A c \in Cells : CountMatchesSamples(state[c].fn_stats)
    /\ Snapshot => CountMatchesSamples(out.stats.function_stats)

\* After a reset, a cycle has completed and take_stats has returned it: one
\* call, one sample, and the state is back to none.
C22_Witness ==
    /\ Snapshot
    /\ out.at.wasReset
    /\ out.stats.function_stats.call_count = 1
    /\ BagCardinality(out.stats.function_stats.call_times_ns) = 1
    /\ Held(out.w) = FnStatsDefault

====
